---- MODULE Spec2Model ----
(***************************************************************************)
(* The authenticated-call lifecycle of saic_ismart_client_ng.api.base:     *)
(* AbstractSaicApi.login / logout / execute_api_call /                     *)
(* execute_api_call_with_event_id / deserialize, the tenacity retry loop   *)
(* configured at base.py:101-107 with saic_api_retry_policy and            *)
(* saic_api_after_retry, and SaicApiClient.encrypt_request.                *)
(*                                                                         *)
(* Every coroutine is a task; an action is the code a task runs between    *)
(* two suspension points (network I/O, asyncio.sleep, the tenacity wait).  *)
(* Time is a global clock in seconds.                                      *)
(***************************************************************************)
EXTENDS Integers, Sequences, FiniteSets, TLC

\* ------------------------------------------------------------------ bounds
\* longest time a transport request (api or login) takes to be answered
MaxDur == 1
\* latest instant at which a caller starts an operation
StartBy == 0
\* deepest chain of logins answered 401 that the server produces
MaxNested == 2

\* ------------------------------------------------------- values and inputs
Procs == {1, 2}

\* Python's None, for optional strings
None == "None"

\* Optional numbers are <<>> (None) or <<n>>
Some(n) == <<n>>

Tokens == {"t1", "t2"}

\* values of the response header 'event-id'
EventIds == {"abc"}

\* LoginResp.expires_in values the server hands out
ExpiresIn == {60}

\* the 'code' field of a response body; <<>> is a body without the field
ServerCodes == {0, 2, 3, 4, 5, 7, 401}

\* the 'data' field of a response body: absent, or a payload; "malformed" is
\* a payload dacite.from_dict cannot map to the data class
Payloads == {"x1", "malformed"}

\* a response as deserialize sees it: json = FALSE is a body response.json()
\* cannot parse
Envelopes ==
    [json : {TRUE}, code : {<<>>} \cup {Some(c) : c \in ServerCodes},
     data : {None} \cup Payloads, event_id : {None} \cup EventIds]
    \cup [json : {FALSE}, code : {<<>>}, data : {None},
          event_id : {None} \cup EventIds]

\* the responses of the token endpoint: a result, a missing data field, a
\* fatal code, a retry code, a 401, each with and without the header, and a
\* body that is no json
LoginEnvelopes ==
    {e \in Envelopes :
        /\ e.code \in {<<>>, Some(0), Some(2), Some(4), Some(401)}
        /\ e.data # "malformed"
        /\ e.code = <<>> => ~e.json}

\* ------------------------------------------------- outcomes and exceptions
NoOutcome ==
    [type |-> "none", return_code |-> <<>>, event_id |-> None, value |-> None]

\* a returned value (value = None is Python's None)
Returned(v) ==
    [type |-> "result", return_code |-> <<>>, event_id |-> None, value |-> v]

\* SaicApiException(msg, return_code=rc); value holds the message
SaicApiException(msg, rc) ==
    [type |-> "SaicApiException", return_code |-> rc, event_id |-> None,
     value |-> msg]

\* SaicApiRetryException(msg, event_id=e, return_code=rc)
SaicApiRetryException(msg, e, rc) ==
    [type |-> "SaicApiRetryException", return_code |-> rc, event_id |-> e,
     value |-> msg]

\* SaicLogoutException("Client not authenticated, ...", return_code=401)
SaicLogoutException ==
    [type |-> "SaicLogoutException", return_code |-> Some(401),
     event_id |-> None, value |-> "not authenticated"]

\* an exception of the transport (httpx), no SaicApiException
TransportError ==
    [type |-> "Exception", return_code |-> <<>>, event_id |-> None,
     value |-> "transport"]

\* SaicApiRetryException and SaicLogoutException are SaicApiExceptions: they
\* pass 'except SaicApiException as se: raise se' unchanged
IsSaicApiException(o) ==
    o.type \in {"SaicApiException", "SaicApiRetryException",
                "SaicLogoutException"}

IsException(o) == o.type \notin {"none", "result"}

VARIABLES
    task,               \* per task: the frame of the operation it runs
    user_token,         \* api_client.user_token
    token_expiration,   \* AbstractSaicApi.__token_expiration
    now,                \* the clock, in seconds
    sms_delivery_delay, \* configuration: the polling interval
    relogin_delay,      \* configuration: the wait before a re-login
    active              \* the tasks that issue operations

vars == <<task, user_token, token_expiration, now, sms_delivery_delay,
          relogin_delay, active>>


\* ------------------------------------------------------------ configuration
\* SaicApiConfiguration.sms_delivery_delay values (seconds)
PollingIntervals == {5, 10}

\* SaicApiConfiguration.relogin_delay values (seconds); 0 is falsy: no wait
ReloginDelays == {0, 2}

\* ---------------------------------------------------------------- deserialize
Raise(o) == [kind |-> "raise", outcome |-> o]
Return(o) == [kind |-> "return", outcome |-> o]
\* the 401 branch: logout, wait, login, and only then raise o
Reauth(o) == [kind |-> "reauth", outcome |-> o]

\* mutant: a body without 'code' counts as code 0
return_code_default_0(e) == IF e.code = <<>> THEN 0 ELSE e.code[1]

\* json_data.get('code', -1)
return_code(e) == IF e.code = <<>> THEN -1 ELSE e.code[1]

\* mutant: the 'data' field is returned as it is, not converted
from_dict_raw(data_class, d) == Return(Returned(d))

\* dacite.from_dict(data_class, json_data['data'])
from_dict(data_class, d) ==
    IF d = "malformed"
    THEN Raise(SaicApiException("Failed to deserialize", <<>>))
    ELSE Return(Returned("obj(x1)"))

\* deserialize with the tail of its conditions as parameter
deserialize_head(e, data_class, tail) ==
    IF ~e.json
    THEN Raise(SaicApiException("Failed to deserialize", <<>>))
    ELSE
    LET rc == return_code(e) IN
    IF rc = 401
    THEN Reauth(SaicApiException("message", Some(rc)))
    ELSE IF rc \in {2, 3, 7}
    THEN Raise(SaicApiException("message", Some(rc)))
    ELSE tail

deserialize_tail(e, data_class) ==
    LET rc == return_code(e) IN
    IF rc # 0
    THEN Raise(SaicApiException("message", Some(rc)))
    ELSE IF data_class = None
    THEN Return(Returned(None))
    ELSE IF e.data # None
    THEN from_dict(data_class, e.data)
    ELSE Raise(SaicApiException("missing data", <<>>))

\* mutant: the code-4 test moved before the event-id header test
deserialize_code4_first(e, data_class) ==
    deserialize_head(e, data_class,
        IF return_code(e) = 4
        THEN Raise(SaicApiRetryException("message", "0", Some(4)))
        ELSE IF e.event_id # None /\ e.data = None
        THEN Raise(SaicApiRetryException("message", e.event_id,
                                         Some(return_code(e))))
        ELSE deserialize_tail(e, data_class))

\* mutant: the event-id header test moved after the non-zero-code test
deserialize_header_last(e, data_class) ==
    deserialize_head(e, data_class,
        IF return_code(e) = 4
        THEN IF e.event_id # None /\ e.data = None
             THEN Raise(SaicApiRetryException("message", e.event_id, Some(4)))
             ELSE Raise(SaicApiRetryException("message", "0", Some(4)))
        ELSE IF return_code(e) # 0
        THEN Raise(SaicApiException("message", Some(return_code(e))))
        ELSE IF e.event_id # None /\ e.data = None
        THEN Raise(SaicApiRetryException("message", e.event_id, Some(0)))
        ELSE deserialize_tail(e, data_class))

\* mutant: the codes 2, 3 and 7 fall into the 401 branch
deserialize_fatal_as_401(e, data_class) ==
    IF e.json /\ return_code(e) \in {2, 3, 7}
    THEN Reauth(SaicApiException("message", Some(return_code(e))))
    ELSE deserialize_head(e, data_class,
        IF e.event_id # None /\ e.data = None
        THEN Raise(SaicApiRetryException("message", e.event_id,
                                         Some(return_code(e))))
        ELSE IF return_code(e) = 4
        THEN Raise(SaicApiRetryException("message", "0", Some(4)))
        ELSE deserialize_tail(e, data_class))

\* mutant: code 4 falls into the 401 branch
deserialize_code4_as_401(e, data_class) ==
    IF e.json /\ return_code(e) = 4
    THEN Reauth(SaicApiException("message", Some(4)))
    ELSE deserialize_head(e, data_class,
        IF e.event_id # None /\ e.data = None
        THEN Raise(SaicApiRetryException("message", e.event_id,
                                         Some(return_code(e))))
        ELSE deserialize_tail(e, data_class))

\* mutant: a missing 'data' field is no error, None is returned
deserialize_missing_data_ok(e, data_class) ==
    deserialize_head(e, data_class,
        IF e.event_id # None /\ e.data = None
        THEN Raise(SaicApiRetryException("message", e.event_id,
                                         Some(return_code(e))))
        ELSE IF return_code(e) = 4
        THEN Raise(SaicApiRetryException("message", "0", Some(4)))
        ELSE IF return_code(e) # 0
        THEN Raise(SaicApiException("message", Some(return_code(e))))
        ELSE IF data_class = None \/ e.data = None
        THEN Return(Returned(None))
        ELSE from_dict(data_class, e.data))

\* AbstractSaicApi.deserialize(response, data_class), up to its first await
deserialize(e, data_class) ==
    IF ~e.json
    THEN Raise(SaicApiException("Failed to deserialize", <<>>))
    ELSE
    LET rc == return_code(e) IN
    IF rc = 401
    THEN Reauth(SaicApiException("message", Some(rc)))
    ELSE IF rc \in {2, 3, 7}
    THEN Raise(SaicApiException("message", Some(rc)))
    ELSE IF e.event_id # None /\ e.data = None
    THEN Raise(SaicApiRetryException("message", e.event_id, Some(rc)))
    ELSE IF rc = 4
    THEN Raise(SaicApiRetryException("message", "0", Some(rc)))
    ELSE IF rc # 0
    THEN Raise(SaicApiException("message", Some(rc)))
    ELSE IF data_class = None
    THEN Return(Returned(None))
    ELSE IF e.data # None
    THEN from_dict(data_class, e.data)
    ELSE Raise(SaicApiException("missing data", <<>>))

\* ------------------------------------------------------- the retry decorator
\* mutant: a SaicApiRetryException is not retried
policy_no_retry_signal(o) == o.type = "SaicLogoutException"

\* mutant: a SaicLogoutException is not retried
policy_no_logout_retry(o) == o.type = "SaicApiRetryException"

\* mutant: every SaicApiException is retried
policy_retry_all(o) == IsSaicApiException(o)

\* mutant: every exception of an attempt is retried
policy_retry_any_exception(o) == IsException(o)

\* retry=saic_api_retry_policy: TRUE means "try again"
saic_api_retry_policy(o) ==
    IF IsException(o)
    THEN IF o.type = "SaicApiRetryException" THEN TRUE
         ELSE IF o.type = "SaicLogoutException" THEN TRUE
         ELSE IF IsSaicApiException(o) THEN FALSE
         ELSE FALSE
    ELSE FALSE

\* mutant: the callback leaves kwargs['event_id'] as it is
after_retry_keeps_event_id(o, event_id) == event_id

\* after=saic_api_after_retry: the value of retry_state.kwargs['event_id']
\* after the callback, given the attempt's outcome and the value before
saic_api_after_retry(o, event_id) ==
    IF o.type = "SaicApiRetryException" THEN o.event_id ELSE event_id

\* stop=tenacity.stop_after_delay(30)
MaxDelay == 30

\* mutant: the stop needs more than MaxDelay
stop_after_delay_strict(seconds) == seconds > MaxDelay

stop_after_delay(seconds) == seconds >= MaxDelay

\* wait=tenacity.wait_fixed(self.__configuration.sms_delivery_delay)
wait_fixed == sms_delivery_delay

\* reraise=True: at the stop the last attempt's exception is raised as it is,
\* instead of a tenacity.RetryError
reraise == TRUE

retry_error(o) ==
    IF reraise THEN o
    ELSE [type |-> "RetryError", return_code |-> <<>>, event_id |-> None,
          value |-> o.type]

\* mutant: the request is refused whatever the token
encrypt_request_refuses(token) == SaicLogoutException

\* SaicApiClient.encrypt_request: what it raises (NoOutcome: nothing)
encrypt_request(token) ==
    IF token = None THEN SaicLogoutException ELSE NoOutcome


\* ------------------------------------------------------------------- frames
\* The frame of a task. Program state: op, pc, data_class, kwargs_event_id
\* (retry_state.kwargs['event_id']), start_time (retry_state.start_time),
\* attempt_number, outcome and outcome_timestamp (retry_state.outcome and
\* .outcome_timestamp, kept until the next attempt), wake_at, sent_at, nested
\* (the deserialize frames waiting in their 401 branch), result (what the
\* caller gets). History, for the properties: sent_event_id (the request's
\* event-id header), attempt_start, env (what deserialize read of the api
\* response of the attempt that just ended: see Seen), login_code (the code
\* of the last login response of the attempt), logins, logouts, first_login,
\* all_retryable, zero_time.
IdleTask ==
    [op |-> "none", pc |-> "idle", data_class |-> None,
     kwargs_event_id |-> None, sent_event_id |-> None,
     attempt_number |-> 0, start_time |-> 0, attempt_start |-> 0,
     sent_at |-> 0, wake_at |-> 0,
     outcome |-> NoOutcome, outcome_timestamp |-> 0, result |-> NoOutcome,
     env |-> <<>>, login_code |-> <<>>,
     nested |-> 0, logins |-> 0, logouts |-> 0, first_login |-> "none",
     all_retryable |-> TRUE, zero_time |-> TRUE]

\* What deserialize reads of a response: whether the body is json, its code,
\* whether it has a 'data' field, the event-id header, and the 'data' field
\* itself where it may reach from_dict (code 0; otherwise only its presence
\* is read and data is None here).
Seen(e) ==
    [json |-> e.json, code |-> e.code, has_data |-> e.data # None,
     data |-> IF e.code = Some(0) THEN e.data ELSE None,
     event_id |-> e.event_id]

\* retry_state.seconds_since_start
seconds_since_start(f) == f.outcome_timestamp - f.start_time

IsLoop(f) == f.op = "execute_api_call_with_event_id"

\* One pass of tenacity's iter() over the outcome o of the attempt that just
\* ended: the retry policy, the after callback, the stop, the wait.
tenacity_iter(f, o) ==
    LET g == [f EXCEPT !.outcome = o, !.outcome_timestamp = now,
                       !.all_retryable =
                           @ /\ o.type = "SaicApiRetryException"
                             /\ f.nested = 0,
                       !.zero_time = @ /\ now = f.attempt_start]
    IN  IF ~saic_api_retry_policy(o)
        THEN [g EXCEPT !.pc = "done", !.result = o, !.sent_at = 0]
        ELSE LET h == [g EXCEPT !.sent_at = 0,
                                !.kwargs_event_id =
                                    saic_api_after_retry(o, @)]
             IN  IF stop_after_delay(seconds_since_start(g))
                 THEN [h EXCEPT !.pc = "done", !.result = retry_error(o)]
                 ELSE [h EXCEPT !.pc = "retry_sleep",
                                !.wake_at = now + wait_fixed]

\* mutant: the outcome of an attempt is recorded and never delivered
finish_lost(f, o) ==
    [f EXCEPT !.pc = "lost", !.outcome = o, !.outcome_timestamp = now,
              !.sent_at = 0]

\* The operation's outermost coroutine ends an attempt with outcome o.
finish(f, o) ==
    IF IsLoop(f) THEN tenacity_iter(f, o)
    ELSE [f EXCEPT !.pc = "done", !.outcome = o, !.outcome_timestamp = now,
                   !.result = o, !.sent_at = 0]

\* login(), up to 'await self.login_client.client.send(req)'
login_request(f) ==
    [f EXCEPT !.pc = "login_wait", !.sent_at = now, !.wake_at = 0,
              !.logins = @ + 1,
              !.first_login = IF @ = "none" THEN "pending" ELSE @]

\* execute_api_call(), up to the response: the request is built and sent;
\* encrypt_request runs in the send, before anything is on the wire
attempt(f) ==
    LET g == [f EXCEPT !.attempt_number = @ + 1, !.wake_at = 0,
                       !.sent_event_id = f.kwargs_event_id,
                       !.attempt_start = now,
                       !.outcome = NoOutcome, !.outcome_timestamp = 0,
                       !.nested = 0, !.logins = 0, !.logouts = 0,
                       !.first_login = "none", !.env = <<>>,
                       !.login_code = <<>>]
    IN  IF encrypt_request(user_token) # NoOutcome
        THEN finish(g, encrypt_request(user_token))
        ELSE [g EXCEPT !.pc = "api_wait", !.sent_at = now]

\* deserialize()'s 401 branch, up to its first await: logout() is done by the
\* action; then the relogin delay if there is one, else login() at once
reauth(f) ==
    LET g == [f EXCEPT !.nested = @ + 1, !.logouts = @ + 1]
    IN  IF relogin_delay # 0
        THEN [g EXCEPT !.pc = "relogin_sleep",
                       !.wake_at = now + relogin_delay]
        ELSE login_request(g)

\* mutant: logout clears the bearer token only
logout_keeps_expiration ==
    [user_token |-> None, token_expiration |-> token_expiration]

\* mutant: logout clears the expiration only
logout_keeps_token ==
    [user_token |-> user_token, token_expiration |-> <<>>]

\* AbstractSaicApi.logout(): the session it leaves
logout == [user_token |-> None, token_expiration |-> <<>>]


\* --------------------------------------------------------------------- Init
Init ==
    /\ task = [p \in Procs |-> IdleTask]
    /\ user_token = None
    /\ token_expiration = <<>>
    /\ now = 0
    /\ sms_delivery_delay \in PollingIntervals
    /\ relogin_delay \in ReloginDelays
    /\ active = {1}

Config == <<sms_delivery_delay, relogin_delay, active>>
Session == <<user_token, token_expiration>>

CanStart(p) == p \in active /\ task[p].pc = "idle" /\ now <= StartBy

\* ------------------------------------------------------------------ actions
\* A caller awaits login(): the request is built and sent (base.py:51-70).
start_login(p) ==
    /\ CanStart(p)
    /\ task' = [task EXCEPT ![p] =
                   login_request([IdleTask EXCEPT !.op = "login",
                                                  !.start_time = now])]
    /\ UNCHANGED <<Session, now, Config>>

\* A caller calls logout() (synchronous).
start_logout(p) ==
    /\ CanStart(p)
    /\ user_token' = logout.user_token
    /\ token_expiration' = logout.token_expiration
    /\ task' = [task EXCEPT ![p] =
                   finish([IdleTask EXCEPT !.op = "logout", !.logouts = 1,
                                           !.start_time = now],
                          Returned(None))]
    /\ UNCHANGED <<now, Config>>

\* A caller awaits execute_api_call(..., out_type=data_class).
execute_api_call(p) ==
    /\ CanStart(p)
    /\ \E data_class \in {None, "T"} :
          task' = [task EXCEPT ![p] =
                      attempt([IdleTask EXCEPT !.op = "execute_api_call",
                                               !.data_class = data_class,
                                               !.start_time = now])]
    /\ UNCHANGED <<Session, now, Config>>

\* A caller awaits execute_api_call_with_event_id(..., out_type=data_class):
\* the decorated inner function is called with event_id='0' and makes its
\* first attempt.
execute_api_call_with_event_id(p) ==
    /\ CanStart(p)
    /\ \E data_class \in {None, "T"} :
          task' = [task EXCEPT ![p] =
                      attempt([IdleTask EXCEPT
                                  !.op = "execute_api_call_with_event_id",
                                  !.data_class = data_class,
                                  !.kwargs_event_id = "0",
                                  !.start_time = now])]
    /\ UNCHANGED <<Session, now, Config>>

\* The response e to an api request arrives: deserialize(response, out_type)
\* runs to its end or, for a 401, to the first await of its 401 branch.
api_response(p) ==
    /\ task[p].pc = "api_wait"
    /\ \E e \in Envelopes :
          LET f == [task[p] EXCEPT !.env = <<Seen(e)>>]
              v == deserialize(e, f.data_class)
          IN  IF v.kind = "reauth"
              THEN /\ user_token' = logout.user_token
                   /\ token_expiration' = logout.token_expiration
                   /\ task' = [task EXCEPT ![p] = reauth(f)]
              ELSE /\ task' = [task EXCEPT ![p] = finish(f, v.outcome)]
                   /\ UNCHANGED Session
    /\ UNCHANGED <<now, Config>>

\* The api request fails in the transport: send() raises, no deserialize.
api_transport_error(p) ==
    /\ task[p].pc = "api_wait"
    /\ task' = [task EXCEPT ![p] =
                   finish(task[p], TransportError)]
    /\ UNCHANGED <<Session, now, Config>>

\* The relogin delay of a 401 branch is over: login() sends its request.
relogin_wake(p) ==
    /\ task[p].pc = "relogin_sleep"
    /\ now = task[p].wake_at
    /\ task' = [task EXCEPT ![p] = login_request(task[p])]
    /\ UNCHANGED <<Session, now, Config>>

\* The response e to a login request arrives: deserialize(response,
\* LoginResp); on a result login() stores token and expiration and returns,
\* and a 401 branch that awaited this login() raises its SaicApiException.
\* An exception leaves every pending frame: each is a SaicApiException and
\* passes the enclosing deserialize frames unchanged.
login_response(p) ==
    /\ task[p].pc = "login_wait"
    /\ \E e \in LoginEnvelopes, access_token \in Tokens,
          expires_in \in ExpiresIn :
          LET v == deserialize(e, "LoginResp")
              f == [task[p] EXCEPT
                       !.login_code =
                           IF e.json THEN Some(return_code(e)) ELSE <<>>,
                       !.first_login =
                           IF @ # "pending" THEN @
                           ELSE IF v.kind = "return" THEN "ok" ELSE "failed"]
          IN  CASE v.kind = "reauth" ->
                     /\ f.nested < MaxNested
                     /\ user_token' = logout.user_token
                     /\ token_expiration' = logout.token_expiration
                     /\ task' = [task EXCEPT ![p] = reauth(f)]
                [] v.kind = "return" ->
                     /\ user_token' = access_token
                     /\ token_expiration' = Some(now + expires_in)
                     /\ task' = [task EXCEPT ![p] =
                           finish(f, IF f.nested > 0
                                     THEN SaicApiException("message", Some(401))
                                     ELSE Returned(access_token))]
                [] v.kind = "raise" ->
                     /\ task' = [task EXCEPT ![p] = finish(f, v.outcome)]
                     /\ UNCHANGED Session
    /\ UNCHANGED <<now, Config>>

\* The login request fails in the transport: login() raises it; a 401 branch
\* awaiting that login() wraps it ('except Exception as e').
login_transport_error(p) ==
    /\ task[p].pc = "login_wait"
    /\ LET f == [task[p] EXCEPT
                    !.first_login = IF @ = "pending" THEN "failed" ELSE @]
       IN  task' = [task EXCEPT ![p] =
                       finish(f, IF f.nested > 0
                                 THEN SaicApiException("Failed to deserialize",
                                                       <<>>)
                                 ELSE TransportError)]
    /\ UNCHANGED <<Session, now, Config>>

\* The tenacity wait is over: the next attempt is made.
retry_wake(p) ==
    /\ task[p].pc = "retry_sleep"
    /\ now = task[p].wake_at
    /\ task' = [task EXCEPT ![p] = attempt(task[p])]
    /\ UNCHANGED <<Session, now, Config>>

\* The caller has its result or its exception; the task is free again.
resume(p) ==
    /\ task[p].pc = "done"
    /\ task' = [task EXCEPT ![p] = IdleTask]
    /\ UNCHANGED <<Session, now, Config>>

Sleeping(p) == task[p].pc \in {"relogin_sleep", "retry_sleep"}
InFlight(p) == task[p].pc \in {"api_wait", "login_wait"}

\* when a sleep ends, and when a request in flight is answered at the latest
Deadline(p) ==
    IF Sleeping(p) THEN task[p].wake_at ELSE task[p].sent_at + MaxDur

\* Time passes. A sleep ends when it is due; a request is answered within
\* MaxDur. While an operation may still start the clock advances by a second;
\* after that it advances to the earliest deadline (a request is answered at
\* once, or when something else happens, or at its deadline); it stops when
\* nothing is pending.
Tick ==
    /\ \A p \in Procs : Sleeping(p) \/ InFlight(p) => now < Deadline(p)
    /\ IF now <= StartBy
       THEN now' = now + 1
       ELSE \E p \in Procs :
               /\ Sleeping(p) \/ InFlight(p)
               /\ now' = Deadline(p)
               /\ \A q \in Procs :
                     Sleeping(q) \/ InFlight(q) => Deadline(p) <= Deadline(q)
    /\ UNCHANGED <<task, Session, Config>>

Next ==
    \/ \E p \in Procs : start_login(p)
    \/ \E p \in Procs : start_logout(p)
    \/ \E p \in Procs : execute_api_call(p)
    \/ \E p \in Procs : execute_api_call_with_event_id(p)
    \/ \E p \in Procs : api_response(p)
    \/ \E p \in Procs : api_transport_error(p)
    \/ \E p \in Procs : relogin_wake(p)
    \/ \E p \in Procs : login_response(p)
    \/ \E p \in Procs : login_transport_error(p)
    \/ \E p \in Procs : retry_wake(p)
    \/ \E p \in Procs : resume(p)
    \/ Tick

Spec == Init /\ [][Next]_vars

\* ------------------------------------------------- fair scheduling
\* A login response with code 401 arrives when MaxNested 401 branches are
\* already waiting, MaxNested standing here for the depth the interpreter
\* allows: the next await chain raises RecursionError, which the innermost
\* waiting deserialize wraps ('except Exception as e') and the outer ones
\* pass on. The session is as the last logout left it.
recursion_limit(p) ==
    /\ task[p].pc = "login_wait"
    /\ task[p].nested = MaxNested
    /\ LET f == [task[p] EXCEPT
                    !.login_code = Some(401),
                    !.first_login = IF @ = "pending" THEN "failed" ELSE @]
       IN  task' = [task EXCEPT ![p] =
                       finish(f, SaicApiException("Failed to deserialize",
                                                  <<>>))]
    /\ UNCHANGED <<Session, now, Config>>

NextFair ==
    \/ Next
    \/ \E p \in Procs : recursion_limit(p)

\* Every request sent is answered or fails (the transport's timeouts), every
\* asyncio.sleep ends when it is due, and time advances.
Fairness ==
    /\ WF_vars(Tick)
    /\ \A p \in Procs :
          /\ WF_vars(api_response(p) \/ api_transport_error(p))
          /\ WF_vars(login_response(p) \/ login_transport_error(p)
                        \/ recursion_limit(p))
          /\ WF_vars(relogin_wake(p))
          /\ WF_vars(retry_wake(p))

SpecFair == Init /\ [][NextFair]_vars /\ Fairness

\* ------------------------------------------------- cancellation
\* asyncio.CancelledError: a BaseException, no Exception, so deserialize's
\* 'except Exception' lets it pass
CancelledError ==
    [type |-> "CancelledError", return_code |-> <<>>, event_id |-> None,
     value |-> None]

\* The caller cancels the task that awaits execute_api_call or
\* execute_api_call_with_event_id: CancelledError is raised at the await the
\* task is suspended in. In an attempt (the send, the relogin delay or the
\* login of a 401 branch) it leaves execute_api_call and, in the loop, is
\* the attempt's outcome that tenacity catches and hands to the retry
\* policy; in tenacity's wait it leaves the loop directly.
cancel(p) ==
    /\ task[p].op \in {"execute_api_call", "execute_api_call_with_event_id"}
    /\ Sleeping(p) \/ InFlight(p)
    /\ task' = [task EXCEPT ![p] =
                   IF task[p].pc = "retry_sleep"
                   THEN [task[p] EXCEPT !.pc = "done", !.wake_at = 0,
                                        !.result = CancelledError]
                   ELSE finish([task[p] EXCEPT !.wake_at = 0],
                               CancelledError)]
    /\ UNCHANGED <<Session, now, Config>>

NextCancel ==
    \/ Next
    \/ \E p \in Procs : cancel(p)

SpecCancel == Init /\ [][NextCancel]_vars

\* ------------------------------------------------- concurrent calls
\* Two tasks of one event loop each call execute_api_call once on the same
\* client, which a login() has authenticated before (base.py:73-74) and
\* whose relogin delay is 2 seconds: they share api_client.user_token and
\* __token_expiration and are interleaved at their awaits.
InitConcurrent ==
    /\ task = [p \in Procs |-> IdleTask]
    /\ user_token = "t1"
    /\ token_expiration \in {Some(expires_in) : expires_in \in ExpiresIn}
    /\ now = 0
    /\ sms_delivery_delay = 5
    /\ relogin_delay = 2
    /\ active = Procs

NextConcurrent ==
    \/ \E p \in Procs : execute_api_call(p)
    \/ \E p \in Procs : api_response(p)
    \/ \E p \in Procs : api_transport_error(p)
    \/ \E p \in Procs : relogin_wake(p)
    \/ \E p \in Procs : login_response(p)
    \/ \E p \in Procs : login_transport_error(p)
    \/ Tick

SpecConcurrent == InitConcurrent /\ [][NextConcurrent]_vars


\* =================================================================== claims
Loop(p) == IsLoop(task[p])
Call(p) == task[p].op = "execute_api_call"
AtDone(p) == task[p].pc = "done"
RetrySignal(o) == o.type = "SaicApiRetryException"
NotAuthenticated(o) == o.type = "SaicLogoutException"
\* p makes an attempt in this step
Attempts(p) == task'[p].attempt_number = task[p].attempt_number + 1

\* ----------------------------------------------------------------------- C1
\* C1 as stated: the error execute_api_call_with_event_id finally raises to
\* its caller is never a retry signal (SaicApiRetryException).
C1_Original ==
    \A p \in Procs : Loop(p) /\ AtDone(p) => ~RetrySignal(task[p].result)

\* C1 as amended: a retry signal is absorbed (followed by the wait and another
\* attempt) as long as the attempt that raised it ended less than 30 seconds
\* after the start; the loop raises a retry signal to its caller only when
\* the attempt ended 30 seconds or more after the start, and then it is the
\* last attempt's own SaicApiRetryException.
C1_Amended ==
    \A p \in Procs :
        Loop(p) /\ RetrySignal(task[p].outcome) =>
            IF seconds_since_start(task[p]) < MaxDelay
            THEN /\ task[p].pc = "retry_sleep"
                 /\ task[p].result = NoOutcome
            ELSE /\ AtDone(p)
                 /\ task[p].result = task[p].outcome

C1_Witness ==
    \E p \in Procs :
        /\ Loop(p) /\ AtDone(p)
        /\ RetrySignal(task[p].result)
        /\ seconds_since_start(task[p]) >= MaxDelay

\* ----------------------------------------------------------------------- C2
\* the scenario of C2: polling interval 5, every attempt so far answered
\* Retryable by the server, and in no time
AlwaysRetryable(p) ==
    /\ Loop(p)
    /\ sms_delivery_delay = 5
    /\ task[p].all_retryable
    /\ task[p].zero_time

\* C2 as stated: in the scenario the loop makes exactly 6 attempts and then
\* fails, and no attempt starts once the elapsed time has reached 30 seconds.
C2_Original ==
    \A p \in Procs :
        AlwaysRetryable(p) =>
            /\ AtDone(p) => /\ task[p].attempt_number = 6
                            /\ IsException(task[p].result)
            /\ task[p].attempt_start - task[p].start_time < MaxDelay

\* C2 as amended: in the scenario the loop makes exactly 7 attempts, at 0, 5,
\* ..., 30 seconds after the start, and then fails with the last retry
\* signal; the stop is tested when an attempt has ended, before the wait, so
\* the 7th attempt starts when the elapsed time equals the 30 seconds, and
\* (in every run) no attempt follows one that ended at 30 seconds or later.
C2_Amended ==
    \A p \in Procs :
        /\ AlwaysRetryable(p) =>
              /\ task[p].attempt_number <= 7
              /\ task[p].attempt_number >= 1 =>
                    task[p].attempt_start - task[p].start_time
                        = 5 * (task[p].attempt_number - 1)
              /\ AtDone(p) => /\ task[p].attempt_number = 7
                              /\ RetrySignal(task[p].result)
        /\ Loop(p) /\ task[p].outcome # NoOutcome
              /\ seconds_since_start(task[p]) >= MaxDelay
              => AtDone(p)

C2_Witness ==
    \E p \in Procs :
        /\ AlwaysRetryable(p) /\ AtDone(p)
        /\ task[p].attempt_number = 7
        /\ task[p].attempt_start - task[p].start_time = MaxDelay

HasEnv(p) == task[p].env # <<>>
Env(p) == task[p].env[1]
EnvCode(p, codes) == HasEnv(p) /\ Env(p).json /\ Env(p).code \in codes
\* the response carries an event-id header and its body has no data field
HeaderNoData(p) ==
    HasEnv(p) /\ Env(p).json /\ Env(p).event_id # None /\ ~Env(p).has_data

\* C4 as stated: after a response with code 4, whatever its headers and data
\* field, the next attempt of the loop is sent with event-id "0".
C4_Original ==
    [][\A p \in Procs :
          Loop(p) /\ EnvCode(p, {Some(4)}) /\ Attempts(p)
              => task'[p].sent_event_id = "0"]_vars

\* C4 as amended: a response with code 4 is always Retryable; the next attempt
\* is sent with event-id "0" unless the response carries an event-id header
\* and has no data field, and then it is sent with the header's value (the
\* header test comes first in deserialize).
C4_Amended ==
    [][\A p \in Procs :
          Loop(p) /\ EnvCode(p, {Some(4)}) =>
              /\ RetrySignal(task[p].outcome)
              /\ Attempts(p) =>
                    task'[p].sent_event_id =
                        IF HeaderNoData(p) THEN Env(p).event_id ELSE "0"]_vars

C4_Witness ==
    \E p \in Procs :
        /\ Loop(p) /\ EnvCode(p, {Some(4)}) /\ HeaderNoData(p)
        /\ task[p].pc = "retry_sleep"
        /\ task[p].kwargs_event_id = "abc"

\* ----------------------------------------------------------------------- C5
\* C5 as stated: a response that carries an event-id header and has no data
\* field, whatever its code, is Retryable with the header's value.
C5_Original ==
    \A p \in Procs :
        HeaderNoData(p) =>
            /\ RetrySignal(task[p].outcome)
            /\ task[p].outcome.event_id = Env(p).event_id

\* C5 as amended: a response that carries an event-id header and has no data
\* field, and whose code is none of 401, 2, 3, 7, is Retryable with the
\* header's value, and the loop's next attempt is sent with that value; with
\* code 401 the 401 branch runs, with 2, 3 or 7 the verdict is Fatal.
C5_Amended ==
    [][\A p \in Procs :
          /\ HeaderNoData(p)
                /\ ~EnvCode(p, {Some(401), Some(2), Some(3), Some(7)})
                => /\ RetrySignal(task[p].outcome)
                   /\ task[p].outcome.event_id = Env(p).event_id
                   /\ Loop(p) /\ Attempts(p)
                         => task'[p].sent_event_id = Env(p).event_id
          /\ HeaderNoData(p) /\ EnvCode(p, {Some(2), Some(3), Some(7)})
                => task[p].outcome.type = "SaicApiException"
          /\ HeaderNoData(p) /\ EnvCode(p, {Some(401)})
                => task[p].logouts > 0
      ]_vars

C5_Witness ==
    \E p \in Procs :
        /\ Loop(p) /\ HeaderNoData(p) /\ EnvCode(p, {Some(5)})
        /\ task[p].pc = "retry_sleep"
        /\ task[p].outcome.event_id = "abc"


\* ----------------------------------------------------------------------- C6
SessionCleared == user_token = None /\ token_expiration = <<>>
\* p's attempt got a 401 and has ended (its error is raised)
Ended401(p) ==
    /\ Call(p) \/ Loop(p)
    /\ EnvCode(p, {Some(401)})
    /\ task[p].pc \in {"done", "retry_sleep"}

\* C6 as stated: on a 401 the session is cleared before the re-login request
\* is issued, and when the re-login (the login() the 401 branch awaits) fails
\* the session stays cleared.
C6_Original ==
    \A p \in Procs :
        /\ (Call(p) \/ Loop(p)) /\ task[p].pc = "login_wait"
              => SessionCleared
        /\ Ended401(p) /\ task[p].first_login = "failed" => SessionCleared

\* ----------------------------------------------------------------------- C7
\* C7 as stated: handling one 401 of an authenticated call issues exactly one
\* login request before the error is raised, whatever the login's response,
\* and execute_api_call does not send the original call again.
C7_Original ==
    \A p \in Procs :
        Ended401(p) =>
            /\ task[p].logins = 1
            /\ Call(p) => task[p].attempt_number = 1

\* ----------------------------------------------------------------------- C8
Fatal(o) == o.type = "SaicApiException"

\* C8: in the loop an attempt that ends in a Fatal verdict (a SaicApiException
\* that is neither the retry signal nor the not-authenticated error) ends the
\* loop: no wait, no further attempt, and that error is what the caller gets.
C8_FatalEndsLoop ==
    \A p \in Procs :
        Loop(p) /\ Fatal(task[p].outcome) =>
            /\ AtDone(p)
            /\ task[p].result = task[p].outcome

\* a loop ended by the Fatal raised after a 401 and a successful re-login, in
\* a later attempt than the first
C8_Witness ==
    \E p \in Procs :
        /\ Loop(p) /\ AtDone(p)
        /\ task[p].attempt_number >= 2
        /\ EnvCode(p, {Some(401)})
        /\ task[p].result = SaicApiException("message", Some(401))
        /\ user_token # None

\* ----------------------------------------------------------------------- C9
\* C9 as stated: the not-authenticated error is Fatal; in the loop it ends the
\* loop after that single attempt.
C9_Original ==
    \A p \in Procs :
        Loop(p) /\ NotAuthenticated(task[p].outcome) =>
            /\ AtDone(p)
            /\ task[p].result = task[p].outcome

\* C9 as amended: an attempt made while no bearer token is set fails with the
\* not-authenticated error (SaicLogoutException) without a request being
\* sent. A bare execute_api_call raises it to its caller. In the loop it is
\* retried: when the attempt ended less than 30 seconds after the start the
\* loop waits the polling interval and makes another attempt with the same
\* event-id; otherwise the loop ends and raises the not-authenticated error.
C9_Amended ==
    [][\A p \in Procs :
          /\ Attempts(p) /\ user_token = None
                => /\ NotAuthenticated(task'[p].outcome)
                   /\ task'[p].pc # "api_wait"
          /\ Call(p) /\ NotAuthenticated(task[p].outcome)
                => AtDone(p) /\ task[p].result = task[p].outcome
          /\ Loop(p) /\ NotAuthenticated(task[p].outcome)
                => /\ task[p].kwargs_event_id = task[p].sent_event_id
                   /\ IF seconds_since_start(task[p]) < MaxDelay
                      THEN /\ task[p].pc = "retry_sleep"
                           /\ task[p].wake_at
                                 = task[p].outcome_timestamp
                                       + sms_delivery_delay
                           /\ Attempts(p) =>
                                 task'[p].sent_event_id
                                     = task[p].sent_event_id
                      ELSE /\ AtDone(p)
                           /\ task[p].result = task[p].outcome
      ]_vars

C9_Witness ==
    \E p \in Procs :
        /\ Loop(p) /\ AtDone(p)
        /\ NotAuthenticated(task[p].result)
        /\ task[p].attempt_number > 1
        /\ user_token = None

\* ---------------------------------------------------------------------- C10
FatalCodes == {Some(2), Some(3), Some(7)}
\* in this step p receives an api response / a login response
GetsApiResponse(p) ==
    task[p].pc = "api_wait" /\ task'[p] # task[p] /\ task'[p].env # <<>>
GetsLoginResponse(p) ==
    task[p].pc = "login_wait" /\ task'[p] # task[p]

\* C10: deserialize of a response with code 2, 3 or 7, whatever its headers
\* and data field, raises the Fatal SaicApiException with that code and
\* leaves bearer token and expiration as they were; it performs no logout and
\* no login.
C10_FatalCodesKeepSession ==
    [][\A p \in Procs :
          /\ GetsApiResponse(p) /\ task'[p].env[1].code \in FatalCodes
                => /\ task'[p].outcome
                         = SaicApiException("message", task'[p].env[1].code)
                   /\ task'[p].pc = "done"
                   /\ UNCHANGED <<user_token, token_expiration>>
                   /\ task'[p].logins = task[p].logins
                   /\ task'[p].logouts = task[p].logouts
          /\ GetsLoginResponse(p) /\ task'[p].login_code \in FatalCodes
                => /\ task'[p].outcome
                         = SaicApiException("message", task'[p].login_code)
                   /\ task'[p].pc \in {"done"}
                   /\ UNCHANGED <<user_token, token_expiration>>
                   /\ task'[p].logins = task[p].logins
                   /\ task'[p].logouts = task[p].logouts
      ]_vars

\* a Fatal code with an event-id header and no data field, session kept
C10_Witness ==
    \E p \in Procs :
        /\ Loop(p) /\ AtDone(p)
        /\ EnvCode(p, FatalCodes) /\ HeaderNoData(p)
        /\ Fatal(task[p].result)
        /\ task[p].logins = 0 /\ task[p].logouts = 0
        /\ user_token # None /\ token_expiration # <<>>

\* ---------------------------------------------------------------------- C11
\* in this step p receives an api response with code 0 and a 'data' field
GetsCode0WithData(p) ==
    /\ GetsApiResponse(p)
    /\ task'[p].env[1].json
    /\ task'[p].env[1].code = Some(0)
    /\ task'[p].env[1].has_data

\* deserialize ran no logout and no login and left the session as it was
NoSessionPath(p) ==
    /\ UNCHANGED <<user_token, token_expiration>>
    /\ task'[p].logins = task[p].logins
    /\ task'[p].logouts = task[p].logouts
    /\ task'[p].pc = "done"
    /\ task'[p].result = task'[p].outcome

\* C11 as stated: a response with code 0 and a data field, whatever its
\* headers, is classified Success with the decoded payload, with no retry
\* signal, no error, no logout and no login.
C11_Original ==
    [][\A p \in Procs :
          GetsCode0WithData(p) =>
              /\ task'[p].outcome = Returned("obj(x1)")
              /\ NoSessionPath(p)]_vars

\* C11 as amended: a response with code 0 and a data field, whatever its
\* headers, never gives a retry signal, a logout or a login, and the call
\* ends with its verdict. The verdict is Success with the decoded payload
\* when a typed result is expected and the data field converts to that type;
\* Success with None, the data field ignored, when no typed result is
\* expected; and the Fatal deserialization error when the data field does
\* not convert to the expected type.
C11_Amended ==
    [][\A p \in Procs :
          GetsCode0WithData(p) =>
              /\ task'[p].outcome =
                    IF task[p].data_class = None THEN Returned(None)
                    ELSE IF task'[p].env[1].data = "malformed"
                    THEN SaicApiException("Failed to deserialize", <<>>)
                    ELSE Returned("obj(x1)")
              /\ NoSessionPath(p)]_vars

\* a typed call answered code 0 with a data field and an event-id header
C11_Witness ==
    \E p \in Procs :
        /\ Call(p) /\ AtDone(p)
        /\ EnvCode(p, {Some(0)}) /\ Env(p).has_data
        /\ Env(p).event_id # None
        /\ task[p].data_class # None
        /\ task[p].result = Returned("obj(x1)")

\* ---------------------------------------------------------------------- C12
\* in this step p, expecting a typed result, receives an api response with
\* code 0 and no 'data' field
GetsCode0NoData(p) ==
    /\ GetsApiResponse(p)
    /\ task[p].data_class # None
    /\ task'[p].env[1].json
    /\ task'[p].env[1].code = Some(0)
    /\ ~task'[p].env[1].has_data

MissingData == SaicApiException("missing data", <<>>)

\* C12 as stated: a response with code 0 and no data field, when a typed
\* result is expected, gets the Fatal missing-data verdict whatever its
\* headers: not Retryable, not Success.
C12_Original ==
    [][\A p \in Procs :
          GetsCode0NoData(p) => task'[p].outcome = MissingData]_vars

\* C12 as amended: a response with code 0 and no data field, when a typed
\* result is expected, gets the Fatal missing-data verdict (and the call or
\* loop ends with it) when it carries no event-id header; when it carries an
\* event-id header the verdict is Retryable with the header's value, the
\* header test coming first. In both cases the session is left as it was.
C12_Amended ==
    [][\A p \in Procs :
          GetsCode0NoData(p) =>
              /\ IF task'[p].env[1].event_id = None
                 THEN /\ task'[p].outcome = MissingData
                      /\ task'[p].pc = "done"
                      /\ task'[p].result = MissingData
                 ELSE task'[p].outcome =
                          SaicApiRetryException("message",
                              task'[p].env[1].event_id, Some(0))
              /\ UNCHANGED <<user_token, token_expiration>>
              /\ task'[p].logins = task[p].logins
              /\ task'[p].logouts = task[p].logouts]_vars

\* a loop ended by the missing-data error in its 2nd attempt, the first one
\* answered Retryable with the event-id header abc
C12_Witness ==
    \E p \in Procs :
        /\ Loop(p) /\ AtDone(p)
        /\ task[p].data_class # None
        /\ task[p].attempt_number = 2
        /\ task[p].sent_event_id = "abc"
        /\ EnvCode(p, {Some(0)}) /\ ~Env(p).has_data
        /\ task[p].result = MissingData

\* ---------------------------------------------------------------------- C13
\* C13: in every state at a suspension point, after any sequence of logins,
\* logouts and 401 handling, the token expiration is set only if the bearer
\* token is set; and a step that clears one of the two (logout, alone or in
\* the 401 branch) clears both.
C13_SessionInvariant ==
    /\ [](token_expiration # <<>> => user_token # None)
    /\ [][(user_token # None /\ user_token' = None)
              \/ (token_expiration # <<>> /\ token_expiration' = <<>>)
              => SessionCleared']_vars

\* a session cleared by the logout of a 401 branch and set again, token and
\* expiration, by its re-login
C13_Witness ==
    \E p \in Procs :
        /\ Ended401(p)
        /\ task[p].logouts > 0 /\ task[p].logins > 0
        /\ user_token # None /\ token_expiration # <<>>

\* ---------------------------------------------------------------------- C14
\* p is in the 401 branch of deserialize: it has run logout() and has not
\* yet left the branch (it sleeps the relogin delay or awaits login())
InReauth(p) ==
    /\ Call(p) \/ Loop(p)
    /\ task[p].pc \in {"relogin_sleep", "login_wait"}

\* C14 as stated: when two calls run concurrently on one client and each
\* receives a 401, their logout/relogin sequences do not interleave: at most
\* one re-authentication is in progress at any time.
C14_Original ==
    \A p, q \in Procs : InReauth(p) /\ InReauth(q) => p = q

\* ---------------------------------------------------------------------- C15
\* C15: when every request sent is eventually answered (or fails) and time
\* advances, every invocation of execute_api_call and of
\* execute_api_call_with_event_id eventually ends with a result or an
\* error, whatever the server answers.
C15_CallsResolve ==
    \A p \in Procs :
        (Call(p) \/ Loop(p)) ~>
            (AtDone(p) /\ task[p].result # NoOutcome)

\* a loop that has ended after its wait, a 401 and nested re-logins
C15_Witness ==
    \E p \in Procs :
        /\ Loop(p) /\ AtDone(p)
        /\ task[p].attempt_number >= 2
        /\ task[p].logins = MaxNested
        /\ IsException(task[p].result)

\* ---------------------------------------------------------------------- C16
\* in this step a caller's logout() runs
CallsLogout(p) == task[p].pc = "idle" /\ task'[p].op = "logout"

\* C16: logout() cannot fail and is idempotent: from every session state it
\* returns (None) and leaves bearer token and expiration both cleared, and a
\* logout() of a cleared session leaves the session as it was.
C16_LogoutIdempotent ==
    [][\A p \in Procs :
          CallsLogout(p) =>
              /\ SessionCleared'
              /\ task'[p].pc = "done"
              /\ task'[p].result = Returned(None)
              /\ SessionCleared => UNCHANGED <<user_token, token_expiration>>
      ]_vars

\* a logout() has returned and the session is cleared
C16_Witness ==
    \E p \in Procs :
        /\ task[p].op = "logout" /\ AtDone(p)
        /\ task[p].result = Returned(None)
        /\ SessionCleared

\* ---------------------------------------------------------------------- C17
Cancelled(p) == AtDone(p) /\ task[p].result = CancelledError

\* C17: when the caller cancels execute_api_call_with_event_id, during an
\* attempt or during the polling wait, the loop ends at once with the
\* cancellation (CancelledError), which is neither of the outcomes the loop
\* ends with at its deadline (the last retry signal or not-authenticated
\* error), and no request is sent after the cancellation: no further attempt
\* and no login.
C17_CancelEndsLoop ==
    [][\A p \in Procs :
          /\ Loop(p) /\ cancel(p) =>
                /\ Cancelled(p)'
                /\ ~RetrySignal(task'[p].result)
                /\ ~NotAuthenticated(task'[p].result)
                /\ task'[p].attempt_number = task[p].attempt_number
                /\ task'[p].logins = task[p].logins
          /\ Loop(p) /\ Cancelled(p) =>
                task'[p] = task[p] \/ task'[p] = IdleTask
      ]_vars

\* a loop cancelled in the polling wait that follows its 2nd attempt
C17_Witness ==
    \E p \in Procs :
        /\ Loop(p) /\ Cancelled(p)
        /\ task[p].attempt_number = 2
        /\ RetrySignal(task[p].outcome)

\* ---------------------------------------------------------------------- C18
\* C18: deserialize gives a parsed response exactly one verdict, by this
\* precedence: code 401 (logout and re-login, no verdict before the login
\* ends); then codes 2, 3, 7 (Fatal with the code); then an event-id header
\* with no data field (Retryable with the header's value); then code 4
\* (Retryable with "0"); then every other non-zero code (Fatal with the
\* code); and only then Success or the missing-data or conversion error. A
\* body without a code field counts as code -1: Fatal with -1 unless the
\* header rule applies.
C18_Precedence ==
    [][\A p \in Procs :
          GetsApiResponse(p) /\ task'[p].env[1].json =>
              LET e == task'[p].env[1]
                  c == IF e.code = <<>> THEN -1 ELSE e.code[1]
                  header_rule == e.event_id # None /\ ~e.has_data
                  o == task'[p].outcome
              IN  CASE c = 401 ->
                         /\ task'[p].logouts = task[p].logouts + 1
                         /\ SessionCleared'
                         /\ o = NoOutcome
                    [] c \in {2, 3, 7} ->
                         o = SaicApiException("message", Some(c))
                    [] c \notin {401, 2, 3, 7} /\ header_rule ->
                         o = SaicApiRetryException("message", e.event_id,
                                                   Some(c))
                    [] c = 4 /\ ~header_rule ->
                         o = SaicApiRetryException("message", "0", Some(4))
                    [] c \notin {401, 2, 3, 7, 4, 0} /\ ~header_rule ->
                         o = SaicApiException("message", Some(c))
                    [] c = 0 /\ ~header_rule ->
                         \/ o.type = "result"
                         \/ o.type = "SaicApiException"
                               /\ o.return_code = <<>>
      ]_vars

\* a body without a code field, with an event-id header and no data field:
\* Retryable with the header's value and code -1
C18_Witness ==
    \E p \in Procs :
        /\ Loop(p) /\ task[p].pc = "retry_sleep"
        /\ HeaderNoData(p) /\ Env(p).code = <<>>
        /\ task[p].outcome
              = SaicApiRetryException("message", "abc", Some(-1))
        /\ task[p].kwargs_event_id = "abc"

\* ---------------------------------------------------------------------- C19
\* the error a 401 branch raises once the login() it awaited has returned
Raised401 == SaicApiException("message", Some(401))

\* C19: when the login() a 401 branch awaits succeeds, the branch's Fatal
\* error reaches the caller with the session authenticated: the bearer token
\* is a token the login returned and the expiration is the time of that
\* login plus expires_in. The session stays so when the caller takes the
\* error, and a call submitted while a token is set is sent, not refused as
\* not authenticated.
C19_ReloginLeavesSession ==
    /\ [](\A p \in Procs :
             Ended401(p) /\ task[p].result = Raised401 =>
                 /\ user_token \in Tokens
                 /\ \E expires_in \in ExpiresIn :
                       token_expiration
                           = Some(task[p].outcome_timestamp + expires_in))
    /\ [][\A p \in Procs :
             /\ Ended401(p) /\ task[p].result = Raised401
                   => UNCHANGED <<user_token, token_expiration>>
             /\ task[p].pc = "idle" /\ (Call(p) \/ Loop(p))'
                   /\ user_token # None
                   => /\ task'[p].pc = "api_wait"
                      /\ task'[p].outcome = NoOutcome
      ]_vars

\* a call ended by the error of its 401 branch, after one login request that
\* succeeded at once, with the session set
C19_Witness ==
    \E p \in Procs :
        /\ Call(p) /\ AtDone(p)
        /\ EnvCode(p, {Some(401)})
        /\ task[p].result = Raised401
        /\ task[p].logins = 1 /\ task[p].first_login = "ok"
        /\ user_token \in Tokens /\ token_expiration # <<>>

\* ---------------------------------------------------------------------- C20
\* in this step a login request of p ends in an error that is not the one
\* of a 401: its response has a code other than 0 and 401 or cannot be
\* parsed, or has code 0 and is classified as an error all the same
LoginFails(p) ==
    /\ GetsLoginResponse(p)
    /\ \/ task'[p].login_code \notin {Some(0), Some(401)}
       \/ /\ task'[p].login_code = Some(0)
          /\ IsException(task'[p].outcome)
          /\ task'[p].outcome # Raised401

\* C20: a login() whose response is classified Fatal or Retryable, with a
\* code other than 401, leaves bearer token and expiration as they were and
\* raises the error: there is no logout and login() sends no further login
\* request, and a login() or execute_api_call of the caller ends with the
\* error.
C20_FailedLoginKeepsSession ==
    [][\A p \in Procs :
          LoginFails(p) =>
              /\ IsException(task'[p].outcome)
              /\ UNCHANGED <<user_token, token_expiration>>
              /\ task'[p].logins = task[p].logins
              /\ task'[p].logouts = task[p].logouts
              /\ task'[p].pc \notin {"login_wait", "relogin_sleep"}
              /\ ~Loop(p) => /\ task'[p].pc = "done"
                             /\ task'[p].result = task'[p].outcome
      ]_vars

\* a login() of an authenticated client that ended with the retry signal of
\* a login response with code 4, after one login request, the token kept
C20_Witness ==
    \E p \in Procs :
        /\ task[p].op = "login" /\ AtDone(p)
        /\ task[p].login_code = Some(4)
        /\ RetrySignal(task[p].result)
        /\ task[p].logins = 1
        /\ user_token \in Tokens /\ token_expiration # <<>>

====
